---- MODULE Spec2Model ----
(***************************************************************************)
(* optiblocks.tree: a pydantic (v1) object graph bound to a tree of        *)
(* pyqtgraph Parameter nodes (ModelContainer), and the propose / commit    *)
(* protocol of the nodes (parameters.py).                                  *)
(*                                                                         *)
(* Values.  Every python value is a record [t, v, s, keys, items]:         *)
(*   float  v = the number in tenths (3000.1 is 30001)                     *)
(*   int    v = the number                                                 *)
(*   bool   v = 1 / 0                                                      *)
(*   str    s = the text                                                   *)
(*   list   items = the elements                                           *)
(*   dict   keys, items = the keys and their values, in insertion order    *)
(*   model  v = the identity of a BaseModel instance held in the heap      *)
(*   new    a BaseModel instance under construction (s = its class)        *)
(*   none   None                                                           *)
(* Python indices are 0-based; sequences here are 1-based, so python index *)
(* idx is position idx + 1.                                                *)
(***************************************************************************)
EXTENDS Integers, Sequences, FiniteSets, TLC

VARIABLES heap, rp, model, last, edits, container, seen

vars == <<heap, rp, model, last, edits, container, seen>>

\* heap   the BaseModel instances, by identity
\* rp     the children of ModelContainer.rp, the root parameter
\* model  ModelContainer.model
\* last   the last call and how it ended
\* edits  the number of calls made
\* container  the ModelContainer besides rp and model: its class, the number
\*            of connections of self.change to rp.sigTreeStateChanged, and
\*            the number of callbacks in self.callbacks
\* seen   what the container's change method has done so far: the passes
\*        (propose_self_change, handle_self_change) begun, the passes whose
\*        commit returned, and the invocations of callbacks

\* The root group, rp.children()[0]
tree == rp[1]

----------------------------------------------------------------------------
(* Values *)

None == [t |-> "none", v |-> 0, s |-> "", keys |-> <<>>, items |-> <<>>]
F(n) == [t |-> "float", v |-> n, s |-> "", keys |-> <<>>, items |-> <<>>]
I(n) == [t |-> "int", v |-> n, s |-> "", keys |-> <<>>, items |-> <<>>]
B(n) == [t |-> "bool", v |-> n, s |-> "", keys |-> <<>>, items |-> <<>>]
S(x) == [t |-> "str", v |-> 0, s |-> x, keys |-> <<>>, items |-> <<>>]
L(xs) == [t |-> "list", v |-> 0, s |-> "", keys |-> <<>>, items |-> xs]
D(ks, xs) == [t |-> "dict", v |-> 0, s |-> "", keys |-> ks, items |-> xs]
Ref(id) == [t |-> "model", v |-> id, s |-> "", keys |-> <<>>, items |-> <<>>]
New(cls, ks, xs) == [t |-> "new", v |-> 0, s |-> cls, keys |-> ks, items |-> xs]

\* A comprehension builds its list element by element
Tuple(f) == f \o <<>>

Primitive == {"str", "float", "int", "bool"}

\* Position of key k in a sequence of keys (0 when absent).
IndexOf(ks, k) ==
    IF \E i \in 1..Len(ks) : ks[i] = k
    THEN CHOOSE i \in 1..Len(ks) : ks[i] = k /\ \A j \in 1..(i - 1) : ks[j] # k
    ELSE 0

\* The decimal texts of the numbers the model uses: str(x) and float(s), int(s).
FloatText == <<
    <<99, "9.9">>, <<14202, "1420.2">>, <<30001, "3000.1">>, <<10, "1.0">>,
    <<20, "2.0">>, <<30, "3.0">>, <<12, "1.2">>, <<1000, "100.0">> >>
IntText == << <<9, "9">>, <<1420, "1420">>, <<12345, "12345">> >>

TextOf(table, n) ==
    IF \E i \in 1..Len(table) : table[i][1] = n
    THEN table[CHOOSE i \in 1..Len(table) : table[i][1] = n][2]
    ELSE "?"
HasText(table, x) == \E i \in 1..Len(table) : table[i][2] = x
NumOf(table, x) == table[CHOOSE i \in 1..Len(table) : table[i][2] = x][1]

----------------------------------------------------------------------------
(* The schema of tests/tree/sample_model.py *)

TStr == [k |-> "str", cls |-> "", elem |-> <<>>]
TFloat == [k |-> "float", cls |-> "", elem |-> <<>>]
TInt == [k |-> "int", cls |-> "", elem |-> <<>>]
TConFloat == [k |-> "confloat", cls |-> "", elem |-> <<>>]
TModel(c) == [k |-> "model", cls |-> c, elem |-> <<>>]
TList(e) == [k |-> "list", cls |-> "", elem |-> <<e>>]
TDict(e) == [k |-> "dict", cls |-> "", elem |-> <<e>>]

\* confloat(gt=1000.0, lt=10000), in tenths
PriceGt == 10000
PriceLt == 100000

Fld(n, a, ty, dflt) == [name |-> n, alias |-> a, ty |-> ty, default |-> dflt]

\* The fields of each class, in declaration order.  Of Car, one field of every
\* shape is kept: model, mpg, max_speed and available (further plain str, float
\* and bool fields without alias or bounds) are left out.
Fields(cls) ==
    CASE cls = "Car" -> <<
            Fld("brand", "bla", TStr, S("Honda")),
            Fld("price", "price", TConFloat, F(30001)),
            Fld("vin", "vin", TInt, I(12345)),
            Fld("keycodes", "keycodes", TList(TFloat), L(<<F(10), F(20), F(30)>>)),
            Fld("extras", "extras", TList(TModel("Extra")), L(<<>>)),
            Fld("engine", "engine", TModel("Engine"), New("Engine", <<"hp">>, <<F(1000)>>)),
            Fld("properties", "properties", TDict(TFloat),
                D(<<"seats", "sunroof">>, <<F(10), F(10)>>)),
            Fld("varproperties", "varproperties", TDict(TList(TFloat)),
                D(<<"volume", "height">>,
                  <<L(<<I(400), I(450)>>), L(<<F(10), F(12)>>)>>)) >>
      [] cls = "Vehicles" -> << Fld("cars", "cars", TList(TModel("Car")), L(<<>>)) >>
      [] cls = "Engine" -> << Fld("hp", "hp", TFloat, F(1000)) >>
      [] cls = "Extra" -> << Fld("name", "name", TStr, None) >>
      [] cls = "AC" -> << Fld("name", "name", TStr, S("air conditioner")) >>
      [] cls = "Door" -> << Fld("side", "side", TStr, S("left")) >>
      [] OTHER -> <<>>

\* class Extra(BaseModel) has a required field: name has no default
Required(cls, f) == cls = "Extra" /\ f.name = "name"

\* issubclass(c, base)
IsSubclass(c, base) == c = base \/ (c = "AC" /\ base = "Extra")

FieldNames(cls) == Tuple([i \in 1..Len(Fields(cls)) |-> Fields(cls)[i].name])

----------------------------------------------------------------------------
(* pydantic v1 validation, as check_and_set_options uses it *)

\* pydantic.validators.str_validator: a str passes, a number becomes its text
str_validator(val) ==
    CASE val.t = "str" -> [ok |-> TRUE, val |-> val]
      [] val.t = "float" -> [ok |-> TRUE, val |-> S(TextOf(FloatText, val.v))]
      [] val.t = "int" -> [ok |-> TRUE, val |-> S(TextOf(IntText, val.v))]
      [] val.t = "bool" -> [ok |-> TRUE, val |-> S(IF val.v = 1 THEN "True" ELSE "False")]
      [] OTHER -> [ok |-> FALSE, val |-> val]

\* pydantic.validators.float_validator: float(v), a ValueError or TypeError fails
float_validator(val) ==
    CASE val.t = "float" -> [ok |-> TRUE, val |-> val]
      [] val.t \in {"int", "bool"} -> [ok |-> TRUE, val |-> F(val.v * 10)]
      [] val.t = "str" /\ HasText(FloatText, val.s) ->
            [ok |-> TRUE, val |-> F(NumOf(FloatText, val.s))]
      [] val.t = "str" /\ HasText(IntText, val.s) ->
            [ok |-> TRUE, val |-> F(NumOf(IntText, val.s) * 10)]
      [] OTHER -> [ok |-> FALSE, val |-> val]

\* pydantic.validators.int_validator: an int passes, else int(v) (a float truncates)
int_validator(val) ==
    CASE val.t = "int" -> [ok |-> TRUE, val |-> val]
      [] val.t = "bool" -> [ok |-> TRUE, val |-> I(val.v)]
      [] val.t = "float" -> [ok |-> TRUE, val |-> I(val.v \div 10)]
      [] val.t = "str" /\ HasText(IntText, val.s) ->
            [ok |-> TRUE, val |-> I(NumOf(IntText, val.s))]
      [] OTHER -> [ok |-> FALSE, val |-> val]

\* confloat(gt=..., lt=...): float_validator, then number_size_validator
confloat_validator(val) ==
    LET number_size_validator(cf) ==
            IF cf.ok /\ cf.val.v > PriceGt /\ cf.val.v < PriceLt
            THEN cf
            ELSE [ok |-> FALSE, val |-> val]
    IN  number_size_validator(float_validator(val))

\* The outcomes of validating several values: no error among them, their values
AllOk(rs) == \A i \in 1..Len(rs) : rs[i].ok
Vals(rs) == Tuple([i \in 1..Len(rs) |-> rs[i].val])

RECURSIVE ValidateType(_, _, _), validate_model(_, _, _)

\* ModelField.validate for a field of declared type ty
ValidateType(h, ty, val) ==
    CASE ty.k = "str" -> str_validator(val)
      [] ty.k = "float" -> float_validator(val)
      [] ty.k = "confloat" -> confloat_validator(val)
      [] ty.k = "int" -> int_validator(val)
      [] ty.k = "list" ->
            \* _validate_sequence_like: a list, then every element
            IF val.t # "list"
            THEN [ok |-> FALSE, val |-> val]
            ELSE LET vt_list(vt_rs) == [ok |-> AllOk(vt_rs), val |-> L(Vals(vt_rs))]
                 IN  vt_list(Tuple([i \in 1..Len(val.items) |->
                                        ValidateType(h, ty.elem[1], val.items[i])]))
      [] ty.k = "dict" ->
            \* _validate_mapping_like: dict_validator (dict(v)), then every value
            IF val.t = "dict"
            THEN LET vt_dict(vt_rd) == [ok |-> AllOk(vt_rd), val |-> D(val.keys, Vals(vt_rd))]
                 IN  vt_dict(Tuple([i \in 1..Len(val.items) |->
                                        ValidateType(h, ty.elem[1], val.items[i])]))
            ELSE IF (val.t = "list" /\ val.items = <<>>) \/ (val.t = "str" /\ val.s = "")
            THEN [ok |-> TRUE, val |-> D(<<>>, <<>>)]
            ELSE [ok |-> FALSE, val |-> val]
      [] ty.k = "model" ->
            \* BaseModel.validate: cls(**value) for a dict, a copy of an instance
            IF val.t = "dict"
            THEN validate_model(h, ty.cls, val)
            ELSE IF val.t = "new" /\ IsSubclass(val.s, ty.cls)
            THEN [ok |-> TRUE, val |-> val]
            ELSE IF val.t = "model" /\ IsSubclass(h[val.v].cls, ty.cls)
            THEN [ok |-> TRUE, val |-> New(h[val.v].cls, h[val.v].keys, h[val.v].items)]
            ELSE [ok |-> FALSE, val |-> val]
      [] OTHER -> [ok |-> FALSE, val |-> val]

\* pydantic.validate_model(cls, input_data): every field is looked up by its
\* ALIAS; a missing one is an error when required and else takes the default,
\* which is not validated.  The result is (values, validation_error).
validate_model(h, cls, d) ==
    LET vm_one(vm_f) ==
            LET vm_k == IndexOf(d.keys, vm_f.alias)
            IN  IF vm_k = 0
                THEN IF Required(cls, vm_f)
                     THEN [ok |-> FALSE, val |-> None]
                     ELSE [ok |-> TRUE, val |-> vm_f.default]
                ELSE ValidateType(h, vm_f.ty, d.items[vm_k])
        vm_values(vm_rs) ==
            [ok |-> AllOk(vm_rs), val |-> New(cls, FieldNames(cls), Vals(vm_rs))]
    IN  vm_values(Tuple([i \in 1..Len(Fields(cls)) |-> vm_one(Fields(cls)[i])]))

----------------------------------------------------------------------------
(* The object graph: BaseModel instances by identity *)

\* Identities available to BaseModel instances
MaxObj == 7
ObjIds == 1..MaxObj

NoObj == [cls |-> "", keys |-> <<>>, items |-> <<>>]
Obj(cls, ks, xs) == [cls |-> cls, keys |-> ks, items |-> xs]

RECURSIVE RefsIn(_)
\* The instances a value holds, directly or inside its lists and dicts
RefsIn(val) ==
    IF val.t = "model"
    THEN {val.v}
    ELSE UNION {RefsIn(val.items[i]) : i \in 1..Len(val.items)}

RECURSIVE Reach(_, _)
\* The instances reachable from those of ids
Reach(h, ids) ==
    LET rc_more == ids \cup UNION {UNION {RefsIn(h[id].items[i]) : i \in 1..Len(h[id].items)}
                                : id \in ids}
    IN  IF rc_more = ids THEN ids ELSE Reach(h, rc_more)

\* What python's reference counting leaves: the instances the roots still reach
Collect(h, roots) ==
    LET co_keep(co_live) == Tuple([id \in ObjIds |-> IF id \in co_live THEN h[id] ELSE NoObj])
    IN  co_keep(Reach(h, roots))

RECURSIVE NewPaths(_)
\* Where the instances under construction sit inside a value: the positions to
\* follow through items
NewPaths(val) ==
    (IF val.t = "new" THEN {<<>>} ELSE {})
    \cup UNION {{<<i>> \o q : q \in NewPaths(val.items[i])} : i \in 1..Len(val.items)}

RECURSIVE ValueAt(_, _)
ValueAt(val, p) == IF p = <<>> THEN val ELSE ValueAt(val.items[Head(p)], Tail(p))

\* An identity of its own for every instance under construction in val
FreshIds(h, val) ==
    CHOOSE f \in [NewPaths(val) -> {id \in ObjIds : h[id] = NoObj}] :
        \A p, q \in NewPaths(val) : p # q => f[p] # f[q]

RECURSIVE Linked(_, _, _)
\* The value at position p of a value, its new instances referred to by identity
Linked(val, f, p) ==
    CASE val.t = "new" -> Ref(f[p])
      [] val.t \in {"list", "dict"} ->
            [val EXCEPT !.items = Tuple([i \in 1..Len(val.items) |->
                                            Linked(val.items[i], f, p \o <<i>>)])]
      [] OTHER -> val

\* The fields of the new instance at position p
NewObj(val, f, p) ==
    Obj(ValueAt(val, p).s, ValueAt(val, p).keys,
        Tuple([i \in 1..Len(ValueAt(val, p).items) |->
                  Linked(ValueAt(val, p).items[i], f, p \o <<i>>)]))

\* A value under construction becomes part of the object graph: every "new"
\* instance gets an identity of its own.
Intern(h, val) ==
    LET in_store(in_f) ==
            [h |-> Tuple([id \in ObjIds |->
                            IF \E p \in DOMAIN in_f : in_f[p] = id
                            THEN NewObj(val, in_f, CHOOSE p \in DOMAIN in_f : in_f[p] = id)
                            ELSE h[id]]),
             out |-> Linked(val, in_f, <<>>)]
    IN  in_store(FreshIds(h, val))
InternSeq(h, xs) ==
    LET is_items(is_r) == [h |-> is_r.h, out |-> is_r.out.items]
    IN  is_items(Intern(h, L(xs)))

RECURSIVE ToDict(_, _)
\* BaseModel.dict(): instances become dicts of their fields, recursively
ToDict(h, val) ==
    CASE val.t = "model" ->
            D(h[val.v].keys, Tuple([i \in 1..Len(h[val.v].items) |-> ToDict(h, h[val.v].items[i])]))
      [] val.t \in {"list", "dict"} ->
            [val EXCEPT !.items = Tuple([i \in 1..Len(val.items) |-> ToDict(h, val.items[i])])]
      [] OTHER -> val

RECURSIVE DeepCopy(_, _)
\* copy.deepcopy: lists and dicts are values here; an instance is copied into a
\* new instance
DeepCopy(h, val) ==
    CASE val.t = "model" ->
            New(h[val.v].cls, h[val.v].keys,
                Tuple([i \in 1..Len(h[val.v].items) |-> DeepCopy(h, h[val.v].items[i])]))
      [] val.t \in {"list", "dict"} ->
            [val EXCEPT !.items = Tuple([i \in 1..Len(val.items) |-> DeepCopy(h, val.items[i])])]
      [] OTHER -> val

\* hasattr / getattr(model, name) on a BaseModel instance
HasAttr(h, id, name) == IndexOf(h[id].keys, name) # 0
GetAttr(h, id, name) == h[id].items[IndexOf(h[id].keys, name)]

\* A setattr after which every record holding the instance in a list field
\* assigns that field anew, with the instance appended once more
SetAttr_upward(h, id, name, val) ==
    LET su_store(su_r) == [su_r.h EXCEPT ![id].items[IndexOf(h[id].keys, name)] = su_r.out]
        su_again(su_v) ==
            IF su_v.t = "list" /\ \E i \in 1..Len(su_v.items) : su_v.items[i] = Ref(id)
            THEN [su_v EXCEPT !.items = Append(su_v.items, Ref(id))]
            ELSE su_v
        su_up(su_h) ==
            Tuple([pid \in ObjIds |->
                IF pid = id \/ su_h[pid] = NoObj
                THEN su_h[pid]
                ELSE [su_h[pid] EXCEPT !.items =
                        Tuple([i \in 1..Len(su_h[pid].items) |-> su_again(su_h[pid].items[i])])]])
    IN  su_up(su_store(Intern(h, val)))

\* A setattr that stores nothing
SetAttr_skipped(h, id, name, val) == h

\* setattr(model, name, value): BaseModel.__setattr__ without validate_assignment
\* stores the value as it is
SetAttr(h, id, name, val) ==
    LET sa_store(sa_r) == [sa_r.h EXCEPT ![id].items[IndexOf(h[id].keys, name)] = sa_r.out]
    IN  sa_store(Intern(h, val))

\* check_and_set_options that ignores the validation error
check_and_set_options_unchecked(h, id, d) ==
    LET uc_set(uc_r, uc_n) ==
            [ok |-> TRUE, h |-> [uc_n.h EXCEPT ![id] = Obj(h[id].cls, uc_r.val.keys, uc_n.out)]]
        uc_check(uc_r) == uc_set(uc_r, InternSeq(h, uc_r.val.items))
    IN  uc_check(validate_model(h, h[id].cls, d))

\* check_and_set_options(model, new_dict): validate_model, and on success the
\* instance's __dict__ becomes the validated values
check_and_set_options(h, id, d) ==
    LET \* object.__setattr__(model, "__dict__", values)
        cs_set(cs_keys, cs_n) ==
            [ok |-> TRUE, h |-> [cs_n.h EXCEPT ![id] = Obj(h[id].cls, cs_keys, cs_n.out)]]
        \* values, fields_set, validation_error = validate_model(...)
        cs_check(cs_r) ==
            IF ~cs_r.ok
            THEN [ok |-> FALSE, h |-> h]
            ELSE cs_set(cs_r.val.keys, InternSeq(h, cs_r.val.items))
    IN  cs_check(validate_model(h, h[id].cls, d))

----------------------------------------------------------------------------
(* Change functions.  A change function is the chain of closures built on the *)
(* way up, outermost first; the innermost is the leaf's  x -> data.          *)

ConstFrame(data) == [k |-> "const", idx |-> 0, key |-> <<>>, data |-> data]
\* ListFieldParameter / ListParameter:  x[idx] = fun(x[idx]); return x
ListFrame(idx) == [k |-> "list", idx |-> idx, key |-> <<>>, data |-> None]
\* DictFieldParameter.handle_change_fun:  key = list(x.keys())[idx]; return fun(x[key])
DictIdxFrame(idx) == [k |-> "dictidx", idx |-> idx, key |-> <<>>, data |-> None]
\* DictFieldParameter / DictParameter.propose_change:  return fun(x[key]), key a node name
DictKeyFrame(name) == [k |-> "dictkey", idx |-> 0, key |-> name, data |-> None]

Raise(e) == [exc |-> e, val |-> None]
Return(x) == [exc |-> "", val |-> x]

\* A node name (a sequence of texts, see Name below) used as a dict key finds the
\* key whose text the whole name is
KeyIndex(ks, name) == IF Len(name) = 1 THEN IndexOf(ks, name[1]) ELSE 0

RECURSIVE ApplyFun(_, _)
\* fun(x): the value returned, or the exception raised
ApplyFun(fun, x) ==
    LET af_f == Head(fun)
        af_rest == Tail(fun)
        af_assign(af_r) ==
            IF af_r.exc # "" THEN af_r ELSE Return([x EXCEPT !.items[af_f.idx] = af_r.val])
    IN  CASE af_f.k = "const" -> Return(af_f.data)
          [] af_f.k = "list" ->
                IF x.t # "list" THEN Raise("TypeError")
                ELSE IF af_f.idx > Len(x.items) THEN Raise("IndexError")
                ELSE af_assign(ApplyFun(af_rest, x.items[af_f.idx]))
          [] af_f.k = "dictidx" ->
                IF x.t # "dict" THEN Raise("AttributeError")
                ELSE IF af_f.idx > Len(x.keys) THEN Raise("IndexError")
                ELSE ApplyFun(af_rest, x.items[af_f.idx])
          [] af_f.k = "dictkey" ->
                IF x.t # "dict" THEN Raise("TypeError")
                ELSE IF KeyIndex(x.keys, af_f.key) = 0 THEN Raise("KeyError")
                ELSE ApplyFun(af_rest, x.items[KeyIndex(x.keys, af_f.key)])
          [] OTHER -> Raise("TypeError")

----------------------------------------------------------------------------
(* ModelGroupParameter: the boundary that validates and writes *)

\* d = self.basemodel.dict(); d[field_name] = new_value
Snapshot(h, id, field_name, new_value) ==
    LET sn_set(sn_d) == [sn_d EXCEPT !.items[IndexOf(sn_d.keys, field_name)] = new_value]
    IN  sn_set(ToDict(h, Ref(id)))

\* handle_change_fun with setattr moved before check_and_set_options
ModelGroup_handle_change_fun_write_first(h, id, name, fun) ==
    IF Len(name) # 1 \/ ~HasAttr(h, id, name[1])
    THEN [exc |-> "AttributeError", h |-> h]
    ELSE LET wf_write(wf_new_value, wf_c) ==
                IF ~wf_c.ok
                THEN [exc |-> "ValidationError", h |-> SetAttr(h, id, name[1], wf_new_value)]
                ELSE [exc |-> "", h |-> SetAttr(wf_c.h, id, name[1], wf_new_value)]
             wf_check(wf_r) ==
                IF wf_r.exc # ""
                THEN [exc |-> wf_r.exc, h |-> h]
                ELSE wf_write(wf_r.val,
                              check_and_set_options(h, id, Snapshot(h, id, name[1], wf_r.val)))
         IN  wf_check(ApplyFun(fun, DeepCopy(h, GetAttr(h, id, name[1]))))

\* ModelGroupParameter.handle_change_fun(param, child, fun), child named name:
\* the exception it raises ("" when it returns) and the object graph afterwards
ModelGroup_handle_change_fun(h, id, name, fun) ==
    IF Len(name) # 1 \/ ~HasAttr(h, id, name[1])
    THEN [exc |-> "AttributeError", h |-> h]
    ELSE LET \* check_and_set_options(...); setattr(self.basemodel, field_name, new_value)
             hf_write(hf_new_value, hf_c) ==
                IF ~hf_c.ok
                THEN [exc |-> "ValidationError", h |-> h]
                ELSE [exc |-> "", h |-> SetAttr(hf_c.h, id, name[1], hf_new_value)]
             \* new_value = fun(value)
             hf_check(hf_r) ==
                IF hf_r.exc # ""
                THEN [exc |-> hf_r.exc, h |-> h]
                ELSE hf_write(hf_r.val,
                              check_and_set_options(h, id, Snapshot(h, id, name[1], hf_r.val)))
         IN  hf_check(ApplyFun(fun, DeepCopy(h, GetAttr(h, id, name[1]))))

\* ModelGroupParameter.propose_change(param, child, fun): what it returns
\* ("True" or the exception caught) and the object graph afterwards
ModelGroup_propose_change(h, id, name, fun) ==
    IF Len(name) # 1 \/ ~HasAttr(h, id, name[1])
    THEN [ret |-> "AttributeError", h |-> h]
    ELSE LET \* check_and_set_options(self.basemodel, d); return True
             pf_verdict(pf_c) ==
                IF ~pf_c.ok
                THEN [ret |-> "ValidationError", h |-> h]
                ELSE [ret |-> "True", h |-> pf_c.h]
             \* new_value = fun(value)
             pf_check(pf_r) ==
                IF pf_r.exc # ""
                THEN [ret |-> pf_r.exc, h |-> h]
                ELSE pf_verdict(check_and_set_options(h, id, Snapshot(h, id, name[1], pf_r.val)))
         IN  pf_check(ApplyFun(fun, DeepCopy(h, GetAttr(h, id, name[1]))))

----------------------------------------------------------------------------
(* ModelContainer: building the tree of nodes.  A node is                   *)
(* [kind, name, ch, bm, value]: its class, its name, its children in order, *)
(* the instance it holds (a ModelGroupParameter's basemodel) and, for a      *)
(* leaf, opts['value'].  A name is the sequence of its texts: 'keycodes[0]'  *)
(* is <<"keycodes", "0">>.  A node is addressed by its path: the positions   *)
(* to follow from the root group down to it.                                 *)

Node(kind, name, ch, bm, value) ==
    [kind |-> kind, name |-> name, ch |-> ch, bm |-> bm, value |-> value]

\* dispatch() returned None
NoNode == Node("None", <<>>, <<>>, 0, None)

\* str(i) for an index
IndexText(i) == <<"0", "1", "2", "3", "4", "5", "6", "7", "8", "9">>[i + 1]

\* handler_map: the class of the node StringHandler, FloatHandler, BooleanHandler
\* and IntHandler make for a field value of this type ("" when none is registered).
\* IntHandler is FloatHandler with nothing overridden.
handler_map(t) ==
    CASE t = "float" -> "FloatFieldParameter"
      [] t = "str" -> "StringFieldParameter"
      [] t = "int" -> "FloatFieldParameter"
      [] t = "bool" -> "BooleanFieldParameter"
      [] OTHER -> ""

\* primitive_map: PrimitiveFloatHandler for a float, pyqtgraph's own Parameter
\* for a str, a bool or an int
primitive_map(t) ==
    IF t = "float" THEN "FloatParameter" ELSE "Parameter"

\* find_primitive_delegate(name, value)
find_primitive_delegate(name, value) ==
    Node(primitive_map(value.t), name, <<>>, 0, value)

\* The build left by an exception
Raised(e) == Node("raise", <<e>>, <<>>, 0, None)

\* A group made over the children collected for it.  A child whose dispatch
\* raised ended the build before the group was made; otherwise the group's
\* constructor adds the children one by one, and adding None (what dispatch
\* returns for a value it does not know) raises AttributeError.
Group(kind, name, ch, bm) ==
    IF \E i \in 1..Len(ch) : ch[i].kind = "raise"
    THEN ch[CHOOSE i \in 1..Len(ch) :
                ch[i].kind = "raise" /\ \A j \in 1..(i - 1) : ch[j].kind # "raise"]
    ELSE IF \E i \in 1..Len(ch) : ch[i] = NoNode
    THEN Raised("AttributeError")
    ELSE Node(kind, name, ch, bm, None)

RECURSIVE dispatch(_, _, _), assemble_model_group(_, _, _), Children(_, _, _, _)

\* children of a list or dict group: dispatch(v, f'{root_name}[{i}]') for a list,
\* dispatch(v, f'{root_name}[{k}]') for a dict
Children(h, obj, root_name, i) ==
    IF i > Len(obj.items)
    THEN <<>>
    ELSE <<dispatch(h, obj.items[i],
                    root_name \o <<IF obj.t = "dict" THEN obj.keys[i] ELSE IndexText(i - 1)>>)>>
         \o Children(h, obj, root_name, i + 1)

\* assemble_list_group / assemble_dict_group
assemble_list_group(h, items, root_name) ==
    Group("ListParameter", root_name, Children(h, items, root_name, 1), 0)
assemble_dict_group(h, data, root_name) ==
    Group("DictParameter", root_name, Children(h, data, root_name, 1), 0)

\* assemble_field_list_group / assemble_field_dict_group
assemble_field_list_group(h, items, root_name) ==
    Group("ListFieldParameter", root_name, Children(h, items, root_name, 1), 0)
assemble_field_dict_group(h, d, root_name) ==
    Group("DictFieldParameter", root_name, Children(h, d, root_name, 1), 0)

\* A mistaken dispatch: the dict test comes first and takes lists too
dispatch_list_as_dict(h, obj, root_name) ==
    CASE obj.t = "model" -> assemble_model_group(h, obj.v, root_name)
      [] obj.t \in {"list", "dict"} -> assemble_dict_group(h, obj, root_name)
      [] obj.t \in Primitive -> find_primitive_delegate(root_name, obj)
      [] OTHER -> NoNode

\* ModelContainer.dispatch(obj, root_name)
dispatch(h, obj, root_name) ==
    CASE obj.t = "model" -> assemble_model_group(h, obj.v, root_name)
      [] obj.t = "list" -> assemble_list_group(h, obj, root_name)
      [] obj.t = "dict" -> assemble_dict_group(h, obj, root_name)
      [] obj.t \in Primitive -> find_primitive_delegate(root_name, obj)
      [] OTHER -> NoNode

\* ModelContainer.assemble_model_group(model, root_name): one child per field
\* that find_field_delegate or the list / dict branch resolves; any other field
\* is skipped.  A field leaf is named by  field.alias or field.name.
assemble_model_group(h, id, root_name) ==
    LET am_fs == Fields(h[id].cls)
        am_param(am_f) ==
            LET am_value == GetAttr(h, id, am_f.name)
            IN  IF handler_map(am_value.t) # ""
                THEN Node(handler_map(am_value.t), <<am_f.alias>>, <<>>, 0, am_value)
                ELSE IF am_value.t = "list"
                THEN assemble_field_list_group(h, am_value, <<am_f.name>>)
                ELSE IF am_value.t = "dict"
                THEN assemble_field_dict_group(h, am_value, <<am_f.name>>)
                ELSE NoNode
        am_all == Tuple([i \in 1..Len(am_fs) |-> am_param(am_fs[i])])
    IN  Group("ModelGroupParameter", root_name, SelectSeq(am_all, LAMBDA am_n : am_n # NoNode), id)

----------------------------------------------------------------------------
(* Paths *)

RECURSIVE NodeAt(_, _)
NodeAt(t, p) == IF p = <<>> THEN t ELSE NodeAt(t.ch[Head(p)], Tail(p))

RECURSIVE Paths(_)
\* The paths of all nodes of a tree
Paths(t) ==
    {<<>>} \cup UNION {{<<i>> \o q : q \in Paths(t.ch[i])} : i \in 1..Len(t.ch)}

Parent(p) == SubSeq(p, 1, Len(p) - 1)
\* self.children().index(child), as a position
ChildIndex(p) == p[Len(p)]

----------------------------------------------------------------------------
(* The nodes' methods *)

FieldKinds == {"FloatFieldParameter", "IntegerFieldParameter",
               "BooleanFieldParameter", "StringFieldParameter"}
PrimitiveKinds == {"FloatParameter", "StringParameter"}
\* The classes that define handle_self_change and propose_self_change
LeafKinds == FieldKinds \cup PrimitiveKinds

\* A mistaken change_fun: always the first element
ListFieldParameter_change_fun_first(idx, fun) == <<ListFrame(1)>> \o fun

\* ListFieldParameter.handle_change_fun / propose_change: the change_fun it forwards
ListFieldParameter_change_fun(idx, fun) == <<ListFrame(idx)>> \o fun
\* ListParameter.propose_change / handle_change_fun: the change_fun it forwards
ListParameter_change_fun(idx, fun) == <<ListFrame(idx)>> \o fun
\* DictFieldParameter.handle_change_fun: the change_fun it forwards
DictFieldParameter_handle_fun(idx, fun) == <<DictIdxFrame(idx)>> \o fun
\* DictFieldParameter.propose_change: key = param.name()
DictFieldParameter_propose_fun(param_name, fun) == <<DictKeyFrame(param_name)>> \o fun
\* DictParameter.propose_change: key = param.name()
DictParameter_propose_fun(param_name, fun) == <<DictKeyFrame(param_name)>> \o fun

RECURSIVE handle_change_fun(_, _, _, _, _)
\* node.handle_change_fun(param, child, fun) for the node at path n and its child
\* at path c: the exception raised ("" when none), the object graph afterwards
\* and the change function that reached a ModelGroupParameter (<<>> when none did).
\* The root group's parent is pyqtgraph's 'params' group, which has no such method.
handle_change_fun(h, t, n, c, fun) ==
    LET hc_kind == NodeAt(t, n).kind
        hc_none == [exc |-> "AttributeError", h |-> h, fun |-> <<>>]
        hc_up(hc_f) == IF n = <<>>
                       THEN hc_none
                       ELSE handle_change_fun(h, t, Parent(n), n, hc_f)
        hc_done(hc_r) == [exc |-> hc_r.exc, h |-> hc_r.h, fun |-> fun]
    IN  CASE hc_kind = "ModelGroupParameter" ->
                hc_done(ModelGroup_handle_change_fun(h, NodeAt(t, n).bm, NodeAt(t, c).name, fun))
          [] hc_kind = "ListFieldParameter" ->
                hc_up(ListFieldParameter_change_fun(ChildIndex(c), fun))
          [] hc_kind = "ListParameter" ->
                hc_up(ListParameter_change_fun(ChildIndex(c), fun))
          [] hc_kind = "DictFieldParameter" ->
                hc_up(DictFieldParameter_handle_fun(ChildIndex(c), fun))
          [] OTHER -> hc_none

RECURSIVE propose_change(_, _, _, _, _, _)
\* node.propose_change(param, child, fun) for the node at path n, the originating
\* node at path param and the child at path c: the exception raised, the value
\* returned to the caller, the boundary's own verdict, the object graph and the
\* change function that reached a ModelGroupParameter.
propose_change(h, t, n, param, c, fun) ==
    LET pc_kind == NodeAt(t, n).kind
        pc_none == [exc |-> "AttributeError", ret |-> "", verdict |-> "", h |-> h, fun |-> <<>>]
        pc_up(pc_f) == IF n = <<>> THEN pc_none ELSE propose_change(h, t, Parent(n), param, n, pc_f)
        \* self.parent().propose_change(...) without a return
        pc_dropped(pc_x) == IF pc_x.exc # "" THEN pc_x ELSE [pc_x EXCEPT !.ret = "None"]
        pc_answer(pc_r) ==
            [exc |-> "", ret |-> pc_r.ret, verdict |-> pc_r.ret, h |-> pc_r.h, fun |-> fun]
    IN  CASE pc_kind = "ModelGroupParameter" ->
                pc_answer(ModelGroup_propose_change(h, NodeAt(t, n).bm, NodeAt(t, c).name, fun))
          [] pc_kind = "ListFieldParameter" ->
                pc_dropped(pc_up(ListFieldParameter_change_fun(ChildIndex(c), fun)))
          [] pc_kind = "ListParameter" ->
                pc_dropped(pc_up(ListParameter_change_fun(ChildIndex(c), fun)))
          [] pc_kind = "DictFieldParameter" ->
                pc_up(DictFieldParameter_propose_fun(NodeAt(t, param).name, fun))
          [] pc_kind = "DictParameter" ->
                pc_up(DictParameter_propose_fun(NodeAt(t, param).name, fun))
          [] OTHER -> pc_none

\* FieldParameter.handle_self_change / PrimitiveParameter.handle_self_change
handle_self_change(h, t, p, data) ==
    IF NodeAt(t, p).kind \in LeafKinds
    THEN handle_change_fun(h, t, Parent(p), p, <<ConstFrame(data)>>)
    ELSE [exc |-> "AttributeError", h |-> h, fun |-> <<>>]

\* FieldParameter.propose_self_change / PrimitiveParameter.propose_self_change:
\* the parent's answer is not returned
propose_self_change(h, t, p, data) ==
    IF NodeAt(t, p).kind \in LeafKinds
    THEN LET ps_dropped(ps_r) == IF ps_r.exc # "" THEN ps_r ELSE [ps_r EXCEPT !.ret = "None"]
         IN  ps_dropped(propose_change(h, t, Parent(p), p, p, <<ConstFrame(data)>>))
    ELSE [exc |-> "AttributeError", ret |-> "", verdict |-> "", h |-> h, fun |-> <<>>]

\* What a lookup method returns: the node found, by its path, or the exception
Found(p) == [exc |-> "", node |-> p]
\* The class does not define the method: Parameter.__getattr__ raises
NoAttribute == [exc |-> "AttributeError", node |-> <<>>]

\* A mistaken find_validator: the node answers with itself
find_validator_self(t, p) == Found(p)

RECURSIVE find_validator(_, _)
\* node.find_validator(): ModelGroupParameter returns self; FieldParameter,
\* ListFieldParameter, DictFieldParameter and DictParameter ask the parent;
\* PrimitiveParameter, ListParameter and pyqtgraph's Parameter define none
find_validator(t, p) ==
    CASE NodeAt(t, p).kind = "ModelGroupParameter" -> Found(p)
      [] NodeAt(t, p).kind \in FieldKinds \cup
            {"ListFieldParameter", "DictFieldParameter", "DictParameter"} ->
            find_validator(t, Parent(p))
      [] OTHER -> NoAttribute

RECURSIVE find_change_handler(_, _)
\* node.find_change_handler(): ModelGroupParameter, DictFieldParameter,
\* ListParameter and DictParameter return self; FieldParameter and
\* ListFieldParameter ask the parent; PrimitiveParameter and pyqtgraph's
\* Parameter define none
find_change_handler(t, p) ==
    CASE NodeAt(t, p).kind \in {"ModelGroupParameter", "DictFieldParameter",
                                "ListParameter", "DictParameter"} -> Found(p)
      [] NodeAt(t, p).kind \in FieldKinds \cup {"ListFieldParameter"} ->
            find_change_handler(t, Parent(p))
      [] OTHER -> NoAttribute

\* node.get_model_value(child): ModelGroupParameter, ListFieldParameter and the
\* other classes of parameters.py define no such method, so the call ends in
\* Parameter.__getattr__
get_model_value(h, t, n, c) == Raise("AttributeError")

----------------------------------------------------------------------------
(* The state machine *)

\* The bound object: Vehicles(cars=[Car(bla='Ford', extras=[AC()])])
InitHeap ==
    Tuple([id \in ObjIds |->
        CASE id = 1 -> Obj("Vehicles", <<"cars">>, <<L(<<Ref(2)>>)>>)
          [] id = 2 -> Obj("Car", FieldNames("Car"),
                           <<S("Ford"), F(30001), I(12345), L(<<F(10), F(20), F(30)>>),
                             L(<<Ref(4)>>), Ref(3),
                             D(<<"seats", "sunroof">>, <<F(10), F(10)>>),
                             D(<<"volume", "height">>,
                               <<L(<<I(400), I(450)>>), L(<<F(10), F(12)>>)>>)>>)
          [] id = 3 -> Obj("Engine", <<"hp">>, <<F(1000)>>)
          [] id = 4 -> Obj("AC", <<"name">>, <<S("air conditioner")>>)
          [] OTHER -> NoObj])

\* The number of calls made on leaves in a run
MaxEdits == 2

\* The values callers submit
Data == {F(99), F(14202), S("abc")}

\* The nodes without children, where edits originate
Leaves(t) == {p \in Paths(t) : NodeAt(t, p).ch = <<>>}

\* The instances the tree's ModelGroupParameters hold; the root group holds the
\* bound object (ModelContainer.model)
Held(t) == {NodeAt(t, p).bm : p \in {q \in Paths(t) : NodeAt(t, q).kind = "ModelGroupParameter"}}

\* What the last call was and how it ended: the method, the leaf it was made on,
\* its argument, the exception it raised ("" when it returned), the value it
\* returned, the verdict of the boundary's propose_change and the change
\* function the boundary received
Outcome(op, leaf, data, exc, ret, verdict, fun) ==
    [op |-> op, leaf |-> leaf, data |-> data, exc |-> exc, ret |-> ret,
     verdict |-> verdict, fun |-> fun]

\* The container's class, connections and callbacks
Container(cls, connected, callbacks) ==
    [cls |-> cls, connected |-> connected, callbacks |-> callbacks]
Seen(passes, commits, notified) ==
    [passes |-> passes, commits |-> commits, notified |-> notified]

\* ModelContainer(window); set_model(model)
Init ==
    /\ heap = InitHeap
    /\ rp = <<dispatch(InitHeap, Ref(1), <<"Root">>)>>
    /\ model = Ref(1)
    /\ last = Outcome("set_model", <<>>, None, "", "", "", <<>>)
    /\ edits = 0
    /\ container = Container("ModelContainer", 1, 0)
    /\ seen = Seen(0, 0, 0)

\* leaf.handle_self_change(data)
HandleSelfChange(p, data) ==
    LET hs_done(hs_r) ==
            /\ heap' = Collect(hs_r.h, Held(tree))
            /\ last' = Outcome("handle_self_change", p, data, hs_r.exc, "", "", hs_r.fun)
    IN  /\ edits < MaxEdits
        /\ edits' = edits + 1
        /\ hs_done(handle_self_change(heap, tree, p, data))
        /\ UNCHANGED <<rp, model, container, seen>>

\* leaf.propose_self_change(data)
ProposeSelfChange(p, data) ==
    LET pp_done(pp_r) ==
            /\ heap' = Collect(pp_r.h, Held(tree))
            /\ last' = Outcome("propose_self_change", p, data, pp_r.exc, pp_r.ret, pp_r.verdict,
                             pp_r.fun)
    IN  /\ edits < MaxEdits
        /\ edits' = edits + 1
        /\ pp_done(propose_self_change(heap, tree, p, data))
        /\ UNCHANGED <<rp, model, container, seen>>

Commit == \E p \in Leaves(tree), data \in Data : HandleSelfChange(p, data)
Propose == \E p \in Leaves(tree), data \in Data : ProposeSelfChange(p, data)

Next == Commit \/ Propose

Spec == Init /\ [][Next]_vars

----------------------------------------------------------------------------
(* Edits made through the view: Parameter.setValue *)

\* float(v), int(v), str(v), bool(v)
float_(v) ==
    CASE v.t = "float" -> Return(v)
      [] v.t \in {"int", "bool"} -> Return(F(v.v * 10))
      [] v.t = "str" /\ HasText(FloatText, v.s) -> Return(F(NumOf(FloatText, v.s)))
      [] v.t = "str" /\ HasText(IntText, v.s) -> Return(F(NumOf(IntText, v.s) * 10))
      [] v.t = "str" -> Raise("ValueError")
      [] OTHER -> Raise("TypeError")
int_(v) ==
    CASE v.t \in {"int", "bool"} -> Return(I(v.v))
      [] v.t = "float" -> Return(I(v.v \div 10))
      [] v.t = "str" /\ HasText(IntText, v.s) -> Return(I(NumOf(IntText, v.s)))
      [] v.t = "str" -> Raise("ValueError")
      [] OTHER -> Raise("TypeError")
str_(v) ==
    CASE v.t = "str" -> Return(v)
      [] v.t = "float" -> Return(S(TextOf(FloatText, v.v)))
      [] v.t = "int" -> Return(S(TextOf(IntText, v.v)))
      [] OTHER -> Return(S("?"))
bool_(v) ==
    CASE v.t \in {"float", "int", "bool"} -> Return(B(IF v.v = 0 THEN 0 ELSE 1))
      [] v.t = "str" -> Return(B(IF v.s = "" THEN 0 ELSE 1))
      [] v.t \in {"list", "dict"} -> Return(B(IF v.items = <<>> THEN 0 ELSE 1))
      [] v.t = "none" -> Return(B(0))
      [] OTHER -> Return(B(1))

\* A node without an interpreter: the raw value goes through as it is
interpretValue_missing_interp(node, v) == Return(v)

\* node._interpretValue(v): float(v) for FloatFieldParameter and FloatParameter,
\* int(v) for IntegerFieldParameter, bool(v) for BooleanFieldParameter, str(v)
\* for StringParameter; FieldParameter and pyqtgraph's Parameter apply the
\* builtin named by opts['type']
interpretValue(node, v) ==
    CASE node.kind \in {"FloatFieldParameter", "FloatParameter"} -> float_(v)
      [] node.kind = "IntegerFieldParameter" -> int_(v)
      [] node.kind = "BooleanFieldParameter" -> bool_(v)
      [] node.kind \in {"StringFieldParameter", "StringParameter"} -> str_(v)
      [] node.kind = "Parameter" /\ node.value.t = "int" -> int_(v)
      [] node.kind = "Parameter" /\ node.value.t = "bool" -> bool_(v)
      [] node.kind = "Parameter" -> str_(v)
      [] OTHER -> Return(v)

\* a == b for two python values: numbers compare by value across int, float
\* and bool, everything else by type and content
PyEq(a, b) ==
    IF a.t \in {"float", "int", "bool"} /\ b.t \in {"float", "int", "bool"}
    THEN (IF a.t = "float" THEN a.v ELSE a.v * 10) = (IF b.t = "float" THEN b.v ELSE b.v * 10)
    ELSE a = b

RECURSIVE SetNodeValue(_, _, _)
\* The tree with opts['value'] of the node at path p set to v
SetNodeValue(t, p, v) ==
    IF p = <<>>
    THEN [t EXCEPT !.value = v]
    ELSE [t EXCEPT !.ch[Head(p)] = SetNodeValue(t.ch[Head(p)], Tail(p), v)]

\* The raw inputs typed into the view
Raw == {S("abc"), S("9.9"), F(14202)}

\* leaf.setValue(raw): the value is interpreted (an exception of the
\* interpreter leaves setValue at once); a value equal to the one shown ends
\* the call; else opts['value'] is set and the value-changed signal reaches
\* ModelContainer.change, which calls propose_self_change and then
\* handle_self_change on the leaf; what the proposal left unreferenced is gone
\* by then.  last.exc is the exception that ended the call.
SetValue(p, raw) ==
    LET sv_commit(sv_pr, sv_v) ==
            IF sv_pr.exc # ""
            THEN [exc |-> sv_pr.exc, h |-> sv_pr.h, fun |-> sv_pr.fun]
            ELSE handle_self_change(Collect(sv_pr.h, Held(tree)), tree, p, sv_v)
        \* for f in self.callbacks: f(self), unless an exception left the loop
        sv_done(sv_r) ==
            /\ heap' = Collect(sv_r.h, Held(tree))
            /\ last' = Outcome("setValue", p, raw, sv_r.exc, "", "", sv_r.fun)
            /\ seen' = IF sv_r.exc = ""
                       THEN Seen(seen.passes + 1, seen.commits + 1,
                                 seen.notified + container.callbacks)
                       ELSE Seen(seen.passes + 1, seen.commits, seen.notified)
        sv_changed(sv_v) ==
            /\ rp' = [rp EXCEPT ![1] = SetNodeValue(tree, p, sv_v)]
            /\ sv_done(sv_commit(propose_self_change(heap, tree, p, sv_v), sv_v))
        sv_set(sv_i) ==
            IF sv_i.exc # "" \/ PyEq(NodeAt(tree, p).value, sv_i.val)
            THEN /\ last' = Outcome("setValue", p, raw, sv_i.exc, "", "", <<>>)
                 /\ UNCHANGED <<heap, rp, seen>>
            ELSE sv_changed(sv_i.val)
    IN  /\ edits < MaxEdits
        /\ edits' = edits + 1
        /\ sv_set(interpretValue(NodeAt(tree, p), raw))
        /\ UNCHANGED <<model, container>>

Edit == \E p \in Leaves(tree), raw \in Raw : SetValue(p, raw)

NextView == Edit

SpecView == Init /\ [][NextView]_vars

----------------------------------------------------------------------------
(* FieldParameter._interpretValue on its own: a field leaf of any type *)

\* The names getattr(builtins, typ, ...) finds among those a leaf is typed with
Builtins == {"float", "int", "bool", "str"}

\* FieldParameter._interpretValue(v): typ = self.opts['type'] or 'str'; the
\* builtin of that name is applied, and where builtins has no such name
\* _missing_interp returns v as it is
FieldParameter_interpretValue(typ, v) ==
    LET fi_apply(fi_typ) ==
            CASE fi_typ = "float" -> float_(v)
              [] fi_typ = "int" -> int_(v)
              [] fi_typ = "bool" -> bool_(v)
              [] fi_typ = "str" -> str_(v)
              [] OTHER -> Return(v)
    IN  fi_apply(IF typ = "" THEN "str" ELSE typ)

\* The types leaves are created with: the four the handlers use, none, and two
\* of pyqtgraph's parameter types that name no builtin
LeafTypes == {"float", "int", "bool", "str", "", "color", "text"}

\* The raw inputs handed to the interpreter
RawInputs == Raw \cup {S("3"), I(3), B(1), F(10), None}

\* A field leaf outside any tree: FieldParameter(name='x', type=typ, value=v)
FieldLeaf(typ, v) ==
    [kind |-> "FieldParameter", name |-> <<"x">>, ch |-> <<>>, bm |-> 0, value |-> v,
     type |-> typ]

InitInterp ==
    /\ heap = InitHeap
    /\ rp \in {<<FieldLeaf(typ, v)>> : typ \in LeafTypes, v \in {None, S("a")}}
    /\ model = None
    /\ last = Outcome("__init__", <<>>, None, "", "", "", <<>>)
    /\ edits = 0
    /\ container = Container("ModelContainer", 0, 0)
    /\ seen = Seen(0, 0, 0)

\* leaf._interpretValue(raw): last.ret is the value returned
Interpret(raw) ==
    LET in_done(in_r) ==
            last' = Outcome("_interpretValue", <<>>, raw, in_r.exc, in_r.val, "", <<>>)
    IN  /\ edits < MaxEdits
        /\ edits' = edits + 1
        /\ in_done(FieldParameter_interpretValue(tree.type, raw))
        /\ UNCHANGED <<heap, rp, model, container, seen>>

NextInterp == \E raw \in RawInputs : Interpret(raw)

SpecInterp == InitInterp /\ [][NextInterp]_vars

----------------------------------------------------------------------------
(* Binding: ModelContainer.set_model *)

\* The objects callers hold: those of InitHeap and a Door whose side was set
\* to None after construction (pydantic does not validate assignments)
BuildHeap == [InitHeap EXCEPT ![5] = Obj("Door", <<"side">>, <<None>>)]

\* What callers pass to set_model: records, lists, dicts and primitives, empty
\* and nested collections, None (the parameter's default), and collections
\* holding a None at some depth
BindInputs ==
    {Ref(1), Ref(2), Ref(3), Ref(4), Ref(5),
     L(<<F(10), S("a"), I(3), B(1)>>),
     L(<<Ref(3), D(<<"k">>, <<F(10)>>)>>),
     D(<<"k", "m">>, <<F(10), L(<<F(20), F(30)>>)>>),
     L(<<>>), D(<<>>, <<>>),
     L(<<L(<<F(10)>>), L(<<>>)>>),
     D(<<"a">>, <<D(<<"b">>, <<S("x")>>)>>),
     L(<<Ref(5)>>),
     S("abc"), F(10), I(3), B(1),
     None, L(<<F(10), None>>), D(<<"k">>, <<None>>),
     L(<<L(<<None>>)>>), D(<<"k">>, <<L(<<F(10), None>>)>>)}

\* A mistaken clearChildren: the children stay
clearChildren_kept(ch) == ch

\* self.rp.clearChildren()
clearChildren(ch) == <<>>

\* self.rp.addChild(root_group)
addChild(ch, child) == Append(ch, child)

\* ModelContainer(window): no model, no tree
InitBuild ==
    /\ heap = BuildHeap
    /\ rp = <<>>
    /\ model = None
    /\ last = Outcome("__init__", <<>>, None, "", "", "", <<>>)
    /\ edits = 0
    /\ container = Container("ModelContainer", 0, 0)
    /\ seen = Seen(0, 0, 0)

\* What n changes of rp's children do: each is signalled on
\* rp.sigTreeStateChanged as a change other than 'value', every connection
\* calls self.change, which skips it; ModelContainer.change then still runs
\* its callbacks
TreeChanged(c, sn, n) ==
    IF c.cls = "ModelContainer"
    THEN [sn EXCEPT !.notified = sn.notified + n * c.connected * c.callbacks]
    ELSE sn

\* set_model(m): the children of rp are cleared, the root group is built and
\* added, self.change is connected once more, and only then self.model is set:
\* a build that raises, or adding the None that dispatch returns, leaves rp
\* without children and the connections and self.model as they were
SetModel(m) ==
    LET sm_failed(sm_e) ==
            /\ rp' = clearChildren(rp)
            /\ model' = model
            /\ last' = Outcome("set_model", <<>>, m, sm_e, "", "", <<>>)
            /\ seen' = TreeChanged(container, seen, Len(rp))
            /\ UNCHANGED container
        sm_bind(sm_root) ==
            IF sm_root.kind = "raise"
            THEN sm_failed(sm_root.name[1])
            ELSE IF sm_root = NoNode
            THEN sm_failed("AttributeError")
            ELSE /\ rp' = addChild(clearChildren(rp), sm_root)
                 /\ model' = m
                 /\ last' = Outcome("set_model", <<>>, m, "", "", "", <<>>)
                 /\ seen' = TreeChanged(container, seen, Len(rp) + 1)
                 /\ container' = [container EXCEPT !.connected = container.connected + 1]
    IN  /\ edits < MaxEdits
        /\ edits' = edits + 1
        /\ sm_bind(dispatch(heap, m, <<"Root">>))
        /\ UNCHANGED heap

Bind == \E m \in BindInputs : SetModel(m)

NextBuild == Bind

SpecBuild == InitBuild /\ [][NextBuild]_vars

----------------------------------------------------------------------------
(* The tree-changed handlers: ModelContainer.change and its overrides in   *)
(* WalkingParameterTree and AOParameterTree                                *)

Classes == {"ModelContainer", "WalkingParameterTree", "AOParameterTree"}

\* One entry of the list a change method receives: (param, 'value', data)
ValueChange(p, data) == [leaf |-> p, data |-> data]

\* What one pass over a change did: the exception that left it, the object
\* graph, and whether its commit returned
Pass(exc, h, commits) == [exc |-> exc, h |-> h, commits |-> commits]

\* The objects the caller of set_model keeps: the Vehicles it built
CallerHeld == {1}

\* ModelContainer.change, one change: param.propose_self_change(data), then
\* param.handle_self_change(data); what the proposal left unreferenced is gone
\* by then
ModelContainer_change_one(h, t, c) ==
    LET mo_commit(mo_r) == Pass(mo_r.exc, mo_r.h, IF mo_r.exc = "" THEN 1 ELSE 0)
        mo_propose(mo_pr) ==
            IF mo_pr.exc # ""
            THEN Pass(mo_pr.exc, mo_pr.h, 0)
            ELSE mo_commit(handle_self_change(Collect(mo_pr.h, Held(t) \cup CallerHeld),
                                              t, c.leaf, c.data))
    IN  mo_propose(propose_self_change(h, t, c.leaf, c.data))

\* rp.childPath(param): the names from the root group down to the node
childPath(t, p) == Tuple([k \in 1..(Len(p) + 1) |-> NodeAt(t, SubSeq(p, 1, k - 1)).name])

RECURSIVE WalkDown(_, _, _)
\* WalkingParameterTree.change, the walk over the intermediate names: a name
\* with one bracket is split into var and key and steps nowhere (a record is
\* neither list nor dict, and a list has no attribute var); a name with two
\* brackets does not split in two (ValueError); a plain name is an attribute
\* to follow or AttributeError is raised
WalkDown(h, node, names) ==
    IF names = <<>>
    THEN Return(node)
    ELSE IF Len(Head(names)) > 2
    THEN Raise("ValueError")
    ELSE IF Len(Head(names)) = 2
    THEN WalkDown(h, node, Tail(names))
    ELSE IF node.t = "model" /\ HasAttr(h, node.v, Head(names)[1])
    THEN WalkDown(h, GetAttr(h, node.v, Head(names)[1]), Tail(names))
    ELSE Raise("AttributeError")

\* WalkingParameterTree.change, one change: splits = childName.split('.');
\* the last name is the attribute (no node name is an integer, so list_mode
\* stays off), the names between the root's and the last are walked from
\* self.model, and where the node reached has the attribute and its value is a
\* str, float, int or bool, setattr(node, attribute, data) stores data as it is
WalkingParameterTree_change_one(h, t, m, c) ==
    LET wk_splits == childPath(t, c.leaf)
        wk_attribute == wk_splits[Len(wk_splits)]
        wk_set(wk_w) ==
            IF wk_w.exc # ""
            THEN Pass(wk_w.exc, h, 0)
            ELSE IF wk_w.val.t = "model" /\ Len(wk_attribute) = 1
                    /\ HasAttr(h, wk_w.val.v, wk_attribute[1])
            THEN IF GetAttr(h, wk_w.val.v, wk_attribute[1]).t \in Primitive
                 THEN Pass("", SetAttr(h, wk_w.val.v, wk_attribute[1], c.data), 1)
                 ELSE Pass("AttributeError", h, 0)
            ELSE Pass("", h, 0)
    IN  wk_set(WalkDown(h, m, SubSeq(wk_splits, 2, Len(wk_splits) - 1)))

\* AOParameterTree.change, one change: roots is built from
\* self.window.o.generator.options and the like (AttributeError when the
\* window has no such attributes); the root's name 'Root' is none of the keys
\* of roots, so nothing is set
AOParameterTree_change_one(h, has_o) ==
    IF has_o THEN Pass("", h, 0) ELSE Pass("AttributeError", h, 0)

\* One call of self.change: what it adds to the passes begun, to the commits
\* that returned and to the callback invocations
Call(exc, h, passes, commits, notified) ==
    [exc |-> exc, h |-> h, passes |-> passes, commits |-> commits, notified |-> notified]

RECURSIVE change(_, _, _, _, _, _)
\* self.change(param, changes): the changes are handled in order and an
\* exception leaves the method at once; ModelContainer.change ends with
\* for f in self.callbacks: f(self), the overrides have no such loop
change(c, h, t, m, changes, has_o) ==
    LET ch_one(ch_c) ==
            CASE c.cls = "ModelContainer" -> ModelContainer_change_one(h, t, ch_c)
              [] c.cls = "WalkingParameterTree" -> WalkingParameterTree_change_one(h, t, m, ch_c)
              [] OTHER -> AOParameterTree_change_one(h, has_o)
        ch_add(ch_p, ch_r) ==
            Call(ch_r.exc, ch_r.h, ch_r.passes + 1, ch_r.commits + ch_p.commits, ch_r.notified)
        ch_next(ch_p) ==
            IF ch_p.exc # ""
            THEN Call(ch_p.exc, ch_p.h, 1, 0, 0)
            ELSE ch_add(ch_p, change(c, Collect(ch_p.h, Held(t) \cup CallerHeld), t, m,
                                     Tail(changes), has_o))
    IN  IF changes = <<>>
        THEN Call("", h, 0, 0, IF c.cls = "ModelContainer" THEN c.callbacks ELSE 0)
        ELSE ch_next(ch_one(Head(changes)))

RECURSIVE emit(_, _, _, _, _, _, _)
\* rp.sigTreeStateChanged.emit(rp, changes): the n connections of self.change
\* are called in turn; an exception raised in one call is reported at the slot
\* and the connections after it are still called.  exc is the first exception.
emit(n, c, h, t, m, changes, has_o) ==
    LET em_add(em_a, em_r) ==
            Call(IF em_a.exc # "" THEN em_a.exc ELSE em_r.exc, em_r.h,
                 em_a.passes + em_r.passes, em_a.commits + em_r.commits,
                 em_a.notified + em_r.notified)
        em_next(em_a) ==
            em_add(em_a, emit(n - 1, c, Collect(em_a.h, Held(t) \cup CallerHeld), t, m,
                              changes, has_o))
    IN  IF n = 0
        THEN Call("", h, 0, 0, 0)
        ELSE em_next(change(c, h, t, m, changes, has_o))

\* The passes, commits and callback invocations of a call, added to those seen
Add(sn, r) == Seen(sn.passes + r.passes, sn.commits + r.commits, sn.notified + r.notified)

\* Whether the window given to the container has the attribute o: only
\* AOParameterTree.change reads it
Windows(c) == IF c.cls = "AOParameterTree" THEN BOOLEAN ELSE {TRUE}

\* The values the view hands over: 9.9 and 1420.2
Typed == {F(99), F(14202)}

\* The leaves whose changes are signalled, and the lists of changes: one
\* change of price or vin, or such a change followed by a change of price
SignalLeaves(t) ==
    {p \in Leaves(t) : NodeAt(t, p).name \in {<<"price">>, <<"vin">>, <<"keycodes", "0">>}}
BatchLeaves(t) == {p \in Leaves(t) : NodeAt(t, p).name \in {<<"price">>, <<"vin">>}}
Batches(t) ==
    {<<ValueChange(p, d)>> : p \in BatchLeaves(t), d \in Typed}
    \cup {<<ValueChange(p, d), ValueChange(q, e)>> :
            p \in BatchLeaves(t), q \in {r \in Leaves(t) : NodeAt(t, r).name = <<"price">>},
            d \in Typed, e \in Typed}

\* A container of any of the three classes, set_model(Vehicles) called once
InitFacade ==
    /\ heap = InitHeap
    /\ rp = <<dispatch(InitHeap, Ref(1), <<"Root">>)>>
    /\ model = Ref(1)
    /\ last = Outcome("set_model", <<>>, None, "", "", "", <<>>)
    /\ edits = 0
    /\ container \in {Container(cls, 1, 0) : cls \in Classes}
    /\ seen = Seen(0, 0, 0)

\* add_callback(f)
AddCallback ==
    /\ edits < MaxEdits
    /\ edits' = edits + 1
    /\ container' = [container EXCEPT !.callbacks = container.callbacks + 1]
    /\ last' = Outcome("add_callback", <<>>, None, "", "", "", <<>>)
    /\ UNCHANGED <<heap, rp, model, seen>>

\* set_model called again, with the Vehicles or with its Car
Rebind == \E m \in {Ref(1), Ref(2)} : SetModel(m)

\* self.change(rp, changes), called once
CallChange(changes, has_o) ==
    LET cc_done(cc_r) ==
            /\ heap' = Collect(cc_r.h, Held(tree) \cup CallerHeld)
            /\ seen' = Add(seen, cc_r)
            /\ last' = Outcome("change", changes[Len(changes)].leaf, L(changes), cc_r.exc,
                               "", "", <<>>)
    IN  /\ edits < MaxEdits
        /\ edits' = edits + 1
        /\ rp # <<>>
        /\ cc_done(change(container, heap, tree, model, changes, has_o))
        /\ UNCHANGED <<rp, model, container>>

\* leaf.setValue(v) with a value of the leaf's type other than the one shown:
\* opts['value'] is set and rp.sigTreeStateChanged carries the one change to
\* every connection
Signal(p, v, has_o) ==
    LET sg_done(sg_r) ==
            /\ heap' = Collect(sg_r.h, Held(tree) \cup CallerHeld)
            /\ seen' = Add(seen, sg_r)
            /\ last' = Outcome("emit", p, v, sg_r.exc, "", "", <<>>)
    IN  /\ edits < MaxEdits
        /\ edits' = edits + 1
        /\ rp # <<>>
        /\ interpretValue(NodeAt(tree, p), v) = Return(v)
        /\ ~PyEq(NodeAt(tree, p).value, v)
        /\ rp' = [rp EXCEPT ![1] = SetNodeValue(tree, p, v)]
        /\ sg_done(emit(container.connected, container, heap, tree, model,
                        <<ValueChange(p, v)>>, has_o))
        /\ UNCHANGED <<model, container>>

Changes == \E changes \in Batches(tree), has_o \in Windows(container) : CallChange(changes, has_o)
Signals ==
    \E p \in SignalLeaves(tree), v \in Typed, has_o \in Windows(container) : Signal(p, v, has_o)

NextFacade == AddCallback \/ Rebind \/ Changes \/ Signals

SpecFacade == InitFacade /\ [][NextFacade]_vars

----------------------------------------------------------------------------
(* Reading the bound object along the tree *)

\* The field of class cls that a child node named name stands for: a field's
\* node carries the field's alias or its name
FieldIndex(cls, name) ==
    CHOOSE i \in 1..Len(Fields(cls)) :
        Len(name) = 1 /\ name[1] \in {Fields(cls)[i].alias, Fields(cls)[i].name}

RECURSIVE LiveAt(_, _, _, _)
\* The value found in the object graph by following path p down from node t,
\* val being the value at t
LiveAt(h, t, val, p) ==
    IF p = <<>>
    THEN val
    ELSE IF t.kind = "ModelGroupParameter"
    THEN LiveAt(h, t.ch[Head(p)],
                h[val.v].items[FieldIndex(h[val.v].cls, t.ch[Head(p)].name)], Tail(p))
    ELSE LiveAt(h, t.ch[Head(p)], val.items[Head(p)], Tail(p))

\* The value the bound object (ModelContainer.model) holds where the node at
\* path p stands
Live(h, t, p) == LiveAt(h, t, Ref(t.bm), p)

\* The nearest ModelGroupParameter above the node at path p
Enclosing(t, p) ==
    CHOOSE q \in {SubSeq(p, 1, k) : k \in 0..(Len(p) - 1)} :
        /\ NodeAt(t, q).kind = "ModelGroupParameter"
        /\ \A k \in (Len(q) + 1)..(Len(p) - 1) :
                NodeAt(t, SubSeq(p, 1, k)).kind # "ModelGroupParameter"

\* The child of that ModelGroupParameter on the way to p: the node of the field
FieldNode(t, p) == NodeAt(t, SubSeq(p, 1, Len(Enclosing(t, p)) + 1))

RECURSIVE ElemType(_, _)
\* The element type n containers inside a declared type
ElemType(ty, n) == IF n = 0 THEN ty ELSE ElemType(ty.elem[1], n - 1)

\* The declared type of what the leaf at path p edits, by the schema of the
\* record its boundary holds
SlotType(h, t, p) ==
    ElemType(Fields(h[NodeAt(t, Enclosing(t, p)).bm].cls)
                [FieldIndex(h[NodeAt(t, Enclosing(t, p)).bm].cls, FieldNode(t, p).name)].ty,
             Len(p) - Len(Enclosing(t, p)) - 1)

\* data satisfies the schema at the leaf's position
Satisfies(h, t, p, data) == ValidateType(h, SlotType(h, t, p), data).ok

\* Every field of the record id validates against the schema of its class
RecordValidates(h, id) ==
    \A i \in 1..Len(Fields(h[id].cls)) :
        ValidateType(h, Fields(h[id].cls)[i].ty, h[id].items[i]).ok

\* The leaves whose edits a ModelGroupParameter receives under the field's own
\* name: field leaves, and the elements of a list field
Plain(h, t, p) ==
    /\ NodeAt(t, p).kind \in LeafKinds
    /\ \/ Parent(p) = Enclosing(t, p)
       \/ /\ Parent(Parent(p)) = Enclosing(t, p)
          /\ NodeAt(t, Parent(p)).kind = "ListFieldParameter"
    /\ Len(FieldNode(t, p).name) = 1
    /\ HasAttr(h, NodeAt(t, Enclosing(t, p)).bm, FieldNode(t, p).name[1])

RECURSIVE Mirrors(_, _, _, _)
\* The node has the shape of the value val: a ModelGroupParameter holding the
\* record, with every child mirroring the field it stands for; a list
\* container with one child per element, in order; a dict container with one
\* child per entry, in order; a childless node showing a primitive.  field
\* tells that val is the value of a record's field.
Mirrors(h, val, node, field) ==
    CASE val.t = "model" ->
            /\ node.kind = "ModelGroupParameter"
            /\ node.bm = val.v
            /\ \A i \in 1..Len(node.ch) :
                    Mirrors(h, h[val.v].items[FieldIndex(h[val.v].cls, node.ch[i].name)],
                            node.ch[i], TRUE)
      [] val.t = "list" ->
            /\ node.kind = (IF field THEN "ListFieldParameter" ELSE "ListParameter")
            /\ Len(node.ch) = Len(val.items)
            /\ \A i \in 1..Len(node.ch) :
                    /\ node.ch[i].name = node.name \o <<IndexText(i - 1)>>
                    /\ Mirrors(h, val.items[i], node.ch[i], FALSE)
      [] val.t = "dict" ->
            /\ node.kind = (IF field THEN "DictFieldParameter" ELSE "DictParameter")
            /\ Len(node.ch) = Len(val.items)
            /\ \A i \in 1..Len(node.ch) :
                    /\ node.ch[i].name = node.name \o <<val.keys[i]>>
                    /\ Mirrors(h, val.items[i], node.ch[i], FALSE)
      [] val.t \in Primitive ->
            /\ node.kind \in (IF field THEN FieldKinds ELSE {"FloatParameter", "Parameter"})
            /\ node.ch = <<>>
            /\ node.value = val
      [] OTHER -> FALSE

RECURSIVE Supported(_, _)
\* val is a record instance, a list, a dict or a str, float, int or bool, and
\* so is every field value, element and entry in it
Supported(h, val) ==
    CASE val.t = "model" ->
            \A i \in 1..Len(h[val.v].items) : Supported(h, h[val.v].items[i])
      [] val.t \in {"list", "dict"} ->
            \A i \in 1..Len(val.items) : Supported(h, val.items[i])
      [] val.t \in Primitive -> TRUE
      [] OTHER -> FALSE

----------------------------------------------------------------------------
(* Properties *)

\* C1 (atomicity): a handle_self_change that ends in a ValidationError leaves the
\* whole object graph as it was, and a handle_self_change whose value does not
\* satisfy the schema at the leaf's position ends in a ValidationError.
C1_Atomicity ==
    [][last'.op = "handle_self_change" =>
            /\ last'.exc = "ValidationError" => heap' = heap
            /\ (Plain(heap, tree, last'.leaf)
                    /\ ~Satisfies(heap, tree, last'.leaf, last'.data))
                => (last'.exc = "ValidationError" /\ heap' = heap)]_vars

\* A rejected edit of price: 9.9 is below the bound, the price is still 3000.1
C1_Witness ==
    /\ last.op = "handle_self_change"
    /\ last.exc = "ValidationError"
    /\ NodeAt(tree, last.leaf).name = <<"price">>
    /\ last.data = F(99)
    /\ Live(heap, tree, last.leaf) = F(30001)

\* C2 (propose purity): propose_self_change, accepted or rejected, leaves every
\* field of the bound object, at every depth, with the value it had.
C2_ProposePurity ==
    [][last'.op = "propose_self_change"
            => ToDict(heap', Ref(tree.bm)) = ToDict(heap, Ref(tree.bm))]_vars

\* C4 (validity invariant): every record of the bound object graph, and every
\* record a ModelGroupParameter holds, validates against its schema.
C4_Validity ==
    \A id \in Reach(heap, Held(tree)) : RecordValidates(heap, id)

\* Two calls made, the last an accepted edit of price
C4_Witness ==
    /\ edits = MaxEdits
    /\ last.op = "handle_self_change"
    /\ last.exc = ""
    /\ NodeAt(tree, last.leaf).name = <<"price">>
    /\ Live(heap, tree, last.leaf) = F(14202)

\* C3 (round trip): handle_self_change on a field leaf with a value that
\* satisfies the schema returns, and the field then holds that value.
C3_RoundTrip ==
    [][(/\ last'.op = "handle_self_change"
        /\ NodeAt(tree, last'.leaf).kind \in FieldKinds
        /\ Satisfies(heap, tree, last'.leaf, last'.data))
            => (/\ last'.exc = ""
                /\ Live(heap', tree, last'.leaf) = last'.data)]_vars

\* The edits of an element of a list-of-floats field with a value that
\* satisfies the schema
ListElementEdit ==
    /\ last'.op = "handle_self_change"
    /\ NodeAt(tree, last'.leaf).kind = "FloatParameter"
    /\ NodeAt(tree, Parent(last'.leaf)).kind = "ListFieldParameter"
    /\ Parent(Parent(last'.leaf)) = Enclosing(tree, last'.leaf)
    /\ Satisfies(heap, tree, last'.leaf, last'.data)

\* C5 (list element edit): committing a satisfying value at element i of a
\* list-of-floats field returns, and the field is then the old list with
\* element i replaced and every other element as it was.
C5_ListElementEdit ==
    [][ListElementEdit =>
        (/\ last'.exc = ""
         /\ Live(heap', tree, Parent(last'.leaf)) =
                [Live(heap, tree, Parent(last'.leaf))
                    EXCEPT !.items[ChildIndex(last'.leaf)] = last'.data])]_vars

\* keycodes [1.0, 2.0, 3.0] after 9.9 is committed at index 1
C5_Witness ==
    /\ last.op = "handle_self_change"
    /\ last.exc = ""
    /\ last.data = F(99)
    /\ NodeAt(tree, Parent(last.leaf)).name = <<"keycodes">>
    /\ ChildIndex(last.leaf) = 2
    /\ Live(heap, tree, Parent(last.leaf)) = L(<<F(10), F(99), F(30)>>)

\* C6 (dict element edit): committing a satisfying value at an entry of a
\* dict-of-floats field returns, and the field is then the old dict with that
\* entry's value replaced and every other entry as it was.
C6_DictElementEdit ==
    [][(/\ last'.op = "handle_self_change"
        /\ NodeAt(tree, last'.leaf).kind = "FloatParameter"
        /\ NodeAt(tree, Parent(last'.leaf)).kind = "DictFieldParameter"
        /\ Satisfies(heap, tree, last'.leaf, last'.data))
            => (/\ last'.exc = ""
                /\ Live(heap', tree, Parent(last'.leaf)) =
                        [Live(heap, tree, Parent(last'.leaf))
                            EXCEPT !.items[ChildIndex(last'.leaf)] = last'.data])]_vars

\* C7 (dynamic addressing): every container level of the change function a
\* boundary receives addresses its element by the position the child has among
\* the container node's children, in commits and in proposals alike.
C7_DynamicAddressing ==
    (last.op \in {"handle_self_change", "propose_self_change"} /\ last.fun # <<>>)
        => \A j \in 1..(Len(last.fun) - 1) :
                /\ last.fun[j].k \in {"list", "dictidx"}
                /\ last.fun[j].idx = last.leaf[Len(Enclosing(tree, last.leaf)) + 1 + j]

\* C8 (interpretation failure): setValue on a float leaf with a raw input that
\* is no float ends with the interpreter's error, no change function reaches a
\* boundary, and the object graph and the values the nodes show are unchanged.
C8_InterpretationFailure ==
    [][(/\ last'.op = "setValue"
        /\ NodeAt(tree, last'.leaf).kind \in {"FloatFieldParameter", "FloatParameter"}
        /\ ~float_validator(last'.data).ok)
            => (/\ last'.exc = "ValueError"
                /\ last'.fun = <<>>
                /\ heap' = heap
                /\ tree' = tree)]_vars

\* 'abc' typed into price: ValueError, price is 3000.1 in the record and in the node
C8_Witness ==
    /\ last.op = "setValue"
    /\ last.data = S("abc")
    /\ last.exc = "ValueError"
    /\ NodeAt(tree, last.leaf).name = <<"price">>
    /\ NodeAt(tree, last.leaf).value = F(30001)
    /\ Live(heap, tree, last.leaf) = F(30001)

\* C9 (boundary of a field leaf): find_validator and find_change_handler of a
\* field leaf both return the nearest ModelGroupParameter above it.
C9_FieldLeafBoundary ==
    \A p \in Paths(tree) :
        NodeAt(tree, p).kind \in FieldKinds
            => /\ find_validator(tree, p) = Found(Enclosing(tree, p))
               /\ find_change_handler(tree, p) = Found(Enclosing(tree, p))

\* The price leaf of cars[0] finds the node of cars[0], after an edit
C9_Witness ==
    /\ edits > 0
    /\ \E p \in Paths(tree) :
        /\ NodeAt(tree, p).kind = "FloatFieldParameter"
        /\ NodeAt(tree, p).name = <<"price">>
        /\ NodeAt(tree, Parent(p)).name = <<"cars", "0">>
        /\ find_validator(tree, p) = Found(Parent(p))
        /\ find_change_handler(tree, p) = Found(Parent(p))

\* C10 (boundary of a list element): find_validator and find_change_handler of
\* a FloatParameter under a ListFieldParameter both return the nearest
\* ModelGroupParameter above it.
C10_ListElementBoundary ==
    \A p \in Paths(tree) :
        (/\ NodeAt(tree, p).kind = "FloatParameter"
         /\ NodeAt(tree, Parent(p)).kind = "ListFieldParameter")
            => /\ find_validator(tree, p) = Found(Enclosing(tree, p))
               /\ find_change_handler(tree, p) = Found(Enclosing(tree, p))

\* C11 (reading through the tree): get_model_value(child) on a model group or a
\* list container returns the value the bound object holds where the child
\* stands: the field's value, or the element at the child's index.
C11_GetModelValue ==
    \A n \in Paths(tree) :
        NodeAt(tree, n).kind \in {"ModelGroupParameter", "ListFieldParameter", "ListParameter"}
            => \A i \in 1..Len(NodeAt(tree, n).ch) :
                    get_model_value(heap, tree, n, n \o <<i>>)
                        = Return(Live(heap, tree, n \o <<i>>))

\* C12 (field type dispatch): in a built model group the node of a field whose
\* value is an int is an IntegerFieldParameter, of a float a
\* FloatFieldParameter, of a bool a BooleanFieldParameter and of a str a
\* StringFieldParameter.
C12_FieldTypeDispatch ==
    \A p \in Paths(tree) \ {<<>>} :
        (/\ NodeAt(tree, Parent(p)).kind = "ModelGroupParameter"
         /\ NodeAt(tree, p).ch = <<>>
         /\ NodeAt(tree, p).value.t \in {"int", "float", "bool", "str"})
            => NodeAt(tree, p).kind =
                    (CASE NodeAt(tree, p).value.t = "int" -> "IntegerFieldParameter"
                       [] NodeAt(tree, p).value.t = "float" -> "FloatFieldParameter"
                       [] NodeAt(tree, p).value.t = "bool" -> "BooleanFieldParameter"
                       [] NodeAt(tree, p).value.t = "str" -> "StringFieldParameter")

\* C13 (dispatch): a set_model that returns has built a ModelGroupParameter for
\* a record, a list container for a list, a dict container for a dict and a
\* childless node for a str, float, int or bool, at every depth, with one child
\* per list element or dict entry, in the collection's order.
C13_DispatchShape ==
    (last.op = "set_model" /\ last.exc = "")
        => (rp # <<>> /\ Mirrors(heap, last.data, rp[Len(rp)], FALSE))

\* A list holding a record and a dict was bound
C13_Witness ==
    /\ last.op = "set_model"
    /\ last.exc = ""
    /\ last.data = L(<<Ref(3), D(<<"k">>, <<F(10)>>)>>)
    /\ Len(rp) = 1
    /\ rp[1].kind = "ListParameter"
    /\ rp[1].ch[1].kind = "ModelGroupParameter"
    /\ rp[1].ch[2].kind = "DictParameter"
    /\ rp[1].ch[2].ch[1].kind = "FloatParameter"

\* C14 (unsupported input): set_model on a value that holds, at the top, as an
\* element or entry, or as a record's field, something that is no record,
\* list, dict, str, float, int or bool, ends in an error and builds no tree.
C14_UnsupportedRejected ==
    (last.op = "set_model" /\ ~Supported(heap, last.data))
        => (last.exc # "" /\ rp = <<>>)

C16_VerdictDelivered ==
    (last.op = "propose_self_change" /\ last.verdict # "")
        => (last.exc = "" /\ last.ret = last.verdict)

\* C17 (tree mirrors the record): every ModelGroupParameter has exactly one
\* child per field of the record it holds, in field order; the child of a
\* record-valued field is a ModelGroupParameter, of a list-valued field a list
\* container, of a dict-valued field a dict container.
C17_OneChildPerField ==
    \A p \in Paths(tree) :
        NodeAt(tree, p).kind = "ModelGroupParameter"
            => LET c17_n == NodeAt(tree, p)
                   c17_fs == Fields(heap[c17_n.bm].cls)
               IN  /\ Len(c17_n.ch) = Len(c17_fs)
                   /\ \A i \in 1..Len(c17_fs) :
                        LET c17_t == GetAttr(heap, c17_n.bm, c17_fs[i].name).t
                        IN  /\ c17_t = "model" => c17_n.ch[i].kind = "ModelGroupParameter"
                            /\ c17_t = "list" => c17_n.ch[i].kind = "ListFieldParameter"
                            /\ c17_t = "dict" => c17_n.ch[i].kind = "DictFieldParameter"

\* C18 (the boundary holds the live record): every ModelGroupParameter holds
\* the very record the bound object has at the node's position, right after
\* the build and after any sequence of accepted edits; the node of extras[0]
\* holds model.cars[0].extras[0], an AC.
C18_BoundaryHoldsLive ==
    \A p \in Paths(tree) :
        NodeAt(tree, p).kind = "ModelGroupParameter"
            => /\ Live(heap, tree, p) = Ref(NodeAt(tree, p).bm)
               /\ (NodeAt(tree, p).name = <<"extras", "0">>
                        => heap[Live(heap, tree, p).v].cls = "AC")

\* C19 (single-field write): an accepted handle_self_change assigns only the
\* edited field of the record its boundary holds; every other field of that
\* record keeps the value, and the instance, it had.
C19_SingleFieldWrite ==
    [][(last'.op = "handle_self_change" /\ last'.exc = "")
        => LET c19_id == NodeAt(tree, Enclosing(tree, last'.leaf)).bm
               c19_f == FieldIndex(heap[c19_id].cls, FieldNode(tree, last'.leaf).name)
           IN  \A i \in 1..Len(heap[c19_id].items) :
                    i # c19_f => heap'[c19_id].items[i] = heap[c19_id].items[i]]_vars

\* new_value = fun(copy.deepcopy(getattr(self.basemodel, field_name))): the
\* candidate field value the boundary of the leaf at path p builds from the
\* change function it received, or the exception that building it raises
Candidate(h, t, p, fun) ==
    LET cd_id == NodeAt(t, Enclosing(t, p)).bm
        cd_name == FieldNode(t, p).name
    IN  IF fun = <<>> \/ Len(cd_name) # 1 \/ ~HasAttr(h, cd_id, cd_name[1])
        THEN Raise("AttributeError")
        ELSE ApplyFun(fun, DeepCopy(h, GetAttr(h, cd_id, cd_name[1])))

\* C20 (propose mirrors commit): for every leaf (record field, list element,
\* dict value) and every candidate value, from the same state the boundary
\* accepts the proposal exactly when the commit of the same edit is accepted,
\* and both paths build the same candidate field value.
C20_ProposeMirrorsCommit ==
    [][last'.op = "handle_self_change"
        => LET c20_p == propose_self_change(heap, tree, last'.leaf, last'.data)
           IN  /\ (last'.exc = "") <=> (c20_p.verdict = "True")
               /\ Candidate(heap, tree, last'.leaf, last'.fun)
                    = Candidate(heap, tree, last'.leaf, c20_p.fun)]_vars

RECURSIVE ReplaceAt(_, _, _)
\* The collection val with the entry at the positions q replaced by x and every
\* other entry, at every level, as it was: what the composed change function
\* of a chain of containers is to return
ReplaceAt(val, q, x) ==
    IF q = <<>>
    THEN x
    ELSE [val EXCEPT !.items[Head(q)] = ReplaceAt(val.items[Head(q)], Tail(q), x)]

\* The number of containers between the leaf at path p and its boundary
Depth(t, p) == Len(p) - Len(Enclosing(t, p)) - 1

\* The path of the field node above p, and the positions from it down to p
FieldPath(t, p) == SubSeq(p, 1, Len(Enclosing(t, p)) + 1)
Below(t, p) == SubSeq(p, Len(Enclosing(t, p)) + 2, Len(p))

\* C21 (nested container composition): committing a satisfying value at a leaf
\* that lies under two or more containers below a record field is accepted,
\* and the field's new value differs from the previous one only at the leaf's
\* position: every enclosing collection keeps its type, length and other
\* entries.
C21_NestedComposition ==
    [][(/\ last'.op = "handle_self_change"
        /\ NodeAt(tree, last'.leaf).kind \in PrimitiveKinds
        /\ Depth(tree, last'.leaf) >= 2
        /\ Satisfies(heap, tree, last'.leaf, last'.data))
            => (/\ last'.exc = ""
                /\ Live(heap', tree, FieldPath(tree, last'.leaf)) =
                        ReplaceAt(Live(heap, tree, FieldPath(tree, last'.leaf)),
                                  Below(tree, last'.leaf), last'.data))]_vars

C24_UnregisteredTypeFails ==
    (last.op = "_interpretValue" /\ tree.type \notin Builtins \cup {""})
        => (last.exc # "" /\ last.ret # last.data)

\* C27 (edit path completeness): the node built for any primitive value of the
\* bound object defines propose_self_change and handle_self_change, and every
\* container above it forwards, so both calls hand a change function to the
\* enclosing model group.
C27_EditPathComplete ==
    \A p \in Leaves(tree) :
        NodeAt(tree, p).kind \in LeafKinds \cup {"Parameter"}
            => /\ NodeAt(tree, p).kind \in LeafKinds
               /\ handle_self_change(heap, tree, p, F(99)).fun # <<>>
               /\ propose_self_change(heap, tree, p, F(99)).fun # <<>>

\* C28 (aliased fields): a satisfying handle_self_change on any field leaf,
\* also the leaf of a field declared with an alias and named by it, is
\* accepted, and the record's field the leaf was built from then holds the
\* value.
C28_AliasedFieldEdit ==
    [][(/\ last'.op = "handle_self_change"
        /\ NodeAt(tree, last'.leaf).kind \in FieldKinds
        /\ Satisfies(heap, tree, last'.leaf, last'.data))
            => LET c28_id == NodeAt(tree, Parent(last'.leaf)).bm
               IN  /\ last'.exc = ""
                   /\ heap'[c28_id].items[FieldIndex(heap[c28_id].cls,
                                                     NodeAt(tree, last'.leaf).name)]
                        = last'.data]_vars

\* C29 (the stored value is the validated one): after an accepted
\* handle_self_change the field of the record holds the value the validator
\* returned for that field, of the field's declared type, not the input that
\* was submitted for validation.
C29_StoredIsValidated ==
    [][(last'.op = "handle_self_change" /\ last'.exc = "")
        => LET c29_id == NodeAt(tree, Enclosing(tree, last'.leaf)).bm
               c29_f == FieldIndex(heap[c29_id].cls, FieldNode(tree, last'.leaf).name)
           IN  heap'[c29_id].items[c29_f] =
                    ValidateType(heap, Fields(heap[c29_id].cls)[c29_f].ty,
                                 Candidate(heap, tree, last'.leaf, last'.fun).val).val]_vars

\* C30 (propagation stops at the nearest boundary): an edit of a field of a
\* nested record is validated against that record's schema only and handled by
\* its own model group: the commit from a field leaf is accepted exactly when
\* that record's snapshot validates, and no record held by another model
\* group, an ancestor's least of all, is changed by the commit or by the
\* proposal.
C30_StopsAtBoundary ==
    [][last'.op \in {"handle_self_change", "propose_self_change"}
        => LET c30_id == NodeAt(tree, Enclosing(tree, last'.leaf)).bm
               c30_name == NodeAt(tree, last'.leaf).name
           IN  /\ \A id \in Held(tree) \ {c30_id} : heap'[id] = heap[id]
               /\ (last'.op = "handle_self_change" /\ NodeAt(tree, last'.leaf).kind \in FieldKinds)
                    => ((last'.exc = "")
                            <=> (/\ HasAttr(heap, c30_id, c30_name[1])
                                 /\ validate_model(heap, heap[c30_id].cls,
                                        Snapshot(heap, c30_id, c30_name[1], last'.data)).ok))]_vars

\* price of cars[0] committed as 1420.2 under the top-level Vehicles record,
\* which still holds the same list of the same Car
C30_Witness ==
    /\ last.op = "handle_self_change"
    /\ last.exc = ""
    /\ last.data = F(14202)
    /\ NodeAt(tree, last.leaf).name = <<"price">>
    /\ Len(Enclosing(tree, last.leaf)) = 2
    /\ heap[NodeAt(tree, Enclosing(tree, last.leaf)).bm].cls = "Car"
    /\ heap[tree.bm] = InitHeap[1]

\* C25 (single mutation point): whenever a call changes a record of the bound
\* object, the write was made by the nodes' commit path, which only a
\* ModelContainer's own change method drives, and the record as written
\* validates; the change methods of WalkingParameterTree and AOParameterTree
\* assign nothing themselves.
C25_SingleMutationPoint ==
    [][\A id \in Reach(heap, RefsIn(model)) \cap Reach(heap', RefsIn(model)) :
            heap'[id] # heap[id]
                => (container.cls = "ModelContainer" /\ RecordValidates(heap', id))]_vars

\* C22 (notification on accept): when a call of ModelContainer.change commits
\* a value change, each registered callback is invoked before the call ends,
\* also when a later change of the same list is rejected.
C22_NotifiedOnAccept ==
    [][(/\ last'.op = "change"
        /\ container.cls = "ModelContainer"
        /\ seen'.commits > seen.commits)
            => seen'.notified >= seen.notified + container.callbacks]_vars

\* C26 (each edit is processed once): however many times set_model has been
\* called on a ModelContainer, one value change of a leaf of the current tree
\* runs one propose/commit pass and invokes each registered callback once.
C26_EditProcessedOnce ==
    [][(/\ last'.op = "emit"
        /\ container.cls = "ModelContainer"
        /\ container.connected >= 1)
            => /\ seen'.passes = seen.passes + 1
               /\ seen'.notified <= seen.notified + container.callbacks
               /\ (seen'.commits > seen.commits)
                    => seen'.notified = seen.notified + container.callbacks]_vars

====
